---- MODULE Spec2Model ----
(***************************************************************************)
(* Model of the LinkedIn-PDF profile extraction (extractBasicInfo and its  *)
(* helper reflowText) and of the upload handler with its file-backed       *)
(* profile store.                                                          *)
(*                                                                         *)
(* Strings are TLA+ strings; a character is a string of length 1.  Line    *)
(* indices are the 0-based indices of the source (Line(clean, i) is        *)
(* clean[i] of the source), so that tests such as summaryIdx > 0 keep      *)
(* their meaning.  A string position (inside a line or the text) is        *)
(* 1-based.  The alphabet is ASCII: the non-ASCII bullet glyphs of         *)
(* reflowText cannot be written in a string of this module.                *)
(*                                                                         *)
(* The upload handler runs in one Node.js process: a request runs without  *)
(* interruption from one await to the next, and requests interleave only   *)
(* at their awaits.  randomUUID is a counter of fresh ids.  The time-stamp  *)
(* fields (created_at, updated_at) are left out of the stored records.     *)
(***************************************************************************)
EXTENDS Integers, Sequences, FiniteSets, TLC

VARIABLES
    text,          \* extractBasicInfo: the argument of the call
    phase,         \* "input" before the call, "returned" after it
    result,        \* the record the call returned (NoResult before)
    pdfLines,      \* reflowText: the argument of the call
    reflowed,      \* reflowText: <<the returned string>>, <<>> before the call
    profilesFile,  \* the store: contents of profiles.json
    usersFile,     \* the store: contents of users.json
    reqs,          \* the upload requests in flight and answered
    nextId,        \* source of fresh ids (randomUUID)
    lastGet        \* the GET request on the profiles routes answered by the step
                   \* just taken, with its response (NoGet after any other step)

vars == <<text, phase, result, pdfLines, reflowed, profilesFile, usersFile, reqs, nextId, lastGet>>

(***************************************************************************)
(* Characters and strings                                                  *)
(***************************************************************************)
Ch(s, i) == IF i >= 1 /\ i <= Len(s) THEN SubSeq(s, i, i) ELSE ""

\* the characters of s at positions a..b that exist
Sub(s, a, b) ==
    LET lo == IF a < 1 THEN 1 ELSE a
        hi == IF b > Len(s) THEN Len(s) ELSE b
    IN  IF lo > hi THEN "" ELSE SubSeq(s, lo, hi)

UpperStr == "ABCDEFGHIJKLMNOPQRSTUVWXYZ"
LowerStr == "abcdefghijklmnopqrstuvwxyz"
DigitStr == "0123456789"

CharsOf(s) == {SubSeq(s, i, i) : i \in 1..Len(s)}

Upper == CharsOf(UpperStr)
Lower == CharsOf(LowerStr)
Digit == CharsOf(DigitStr)
\* \w of the regular expressions
WordCh == Upper \cup Lower \cup Digit \cup {"_"}
\* \s of the regular expressions, and the characters trim() removes
WS == {" ", "\t", "\n", "\r"}
\* the characters "." of a regular expression does not match
LineTerm == {"\n", "\r"}

\* the lower-case form of a character (the i flag of a regular expression)
LowerCh(c) ==
    IF c \in Upper
    THEN LET k == CHOOSE j \in 1..Len(UpperStr) : Ch(UpperStr, j) = c
         IN  Ch(LowerStr, k)
    ELSE c

\* String.prototype.includes
Includes(s, sub) ==
    \E i \in 1..(Len(s) - Len(sub) + 1) : SubSeq(s, i, i + Len(sub) - 1) = sub

\* the characters of s from position p on are word w (lower case), ignoring case
MatchCI(s, p, w) ==
    /\ p >= 1
    /\ p + Len(w) - 1 <= Len(s)
    /\ \A k \in 1..Len(w) : LowerCh(Ch(s, p + k - 1)) = Ch(w, k)

\* every character of s at positions a..b is in class
AllIn(s, a, b, class) == \A i \in a..b : Ch(s, i) \in class

\* the last position of the longest run of class characters that starts at
\* position p (p - 1 when the run is empty): a greedy X* at p
Run(s, p, class) ==
    IF Ch(s, p) \notin class THEN p - 1
    ELSE CHOOSE e \in p..Len(s) :
            /\ Ch(s, e + 1) \notin class
            /\ AllIn(s, p, e, class)

\* String.prototype.trim
Trim(s) ==
    IF \A i \in 1..Len(s) : Ch(s, i) \in WS THEN ""
    ELSE LET lo == CHOOSE i \in 1..Len(s) :
                        Ch(s, i) \notin WS /\ \A j \in 1..(i - 1) : Ch(s, j) \in WS
             hi == CHOOSE i \in 1..Len(s) :
                        Ch(s, i) \notin WS /\ \A j \in (i + 1)..Len(s) : Ch(s, j) \in WS
         IN  SubSeq(s, lo, hi)

\* String.prototype.split("\n"): the pieces of s from position p on
RECURSIVE SplitFrom(_, _)
SplitFrom(s, p) ==
    LET q == CHOOSE r \in p..(Len(s) + 1) :
                (r = Len(s) + 1 \/ Ch(s, r) = "\n") /\ \A k \in p..(r - 1) : Ch(s, k) # "\n"
    IN  IF q = Len(s) + 1 THEN <<Sub(s, p, Len(s))>>
        ELSE <<Sub(s, p, q - 1)>> \o SplitFrom(s, q + 1)

SplitLines(s) == SplitFrom(s, 1)

\* Array.prototype.join
RECURSIVE Join(_, _)
Join(seq, sep) ==
    IF seq = <<>> THEN ""
    ELSE IF Len(seq) = 1 THEN seq[1]
         ELSE seq[1] \o sep \o Join(Tail(seq), sep)

Min(a, b) == IF a < b THEN a ELSE b
Max(a, b) == IF a > b THEN a ELSE b

(***************************************************************************)
(* Optional values: undefined is <<>>, a present value v is <<v>>          *)
(***************************************************************************)
Undefined == <<>>
Some(v) == <<v>>

\* the || undefined forgotten
OrUndefined_kept(s) == Some(s)

\* s || undefined
OrUndefined(s) == IF s = "" THEN Undefined ELSE Some(s)

(***************************************************************************)
(* Line Normalizer                                                         *)
(***************************************************************************)
\* /^Page\s+\d+\s+of\s+\d+$/i
PageNoise(l) ==
    /\ MatchCI(l, 1, "page")
    /\ LET e1 == Run(l, 5, WS)
           e2 == Run(l, e1 + 1, Digit)
           e3 == Run(l, e2 + 1, WS)
           e4 == Run(l, e3 + 3, WS)
           e5 == Run(l, e4 + 1, Digit)
       IN  /\ e1 >= 5
           /\ e2 >= e1 + 1
           /\ e3 >= e2 + 1
           /\ MatchCI(l, e3 + 1, "of")
           /\ e4 >= e3 + 3
           /\ e5 >= e4 + 1
           /\ e5 = Len(l)

NonEmpty(l) == l # ""
NotPageNoise(l) == ~PageNoise(l)

\* text.split("\n").map((l) => l.trim()).filter(Boolean)
lines(t) ==
    LET raw == SplitLines(t)
    IN  SelectSeq([k \in 1..Len(raw) |-> Trim(raw[k])], NonEmpty)

\* lines.filter((l) => !/^Page\s+\d+\s+of\s+\d+$/i.test(l))
Clean(t) == SelectSeq(lines(t), NotPageNoise)

(***************************************************************************)
(* Section Anchor Locator                                                  *)
(***************************************************************************)
\* clean.findIndex((l) => l === keyword): the first index, -1 when none
idx(clean, keyword) ==
    LET hits == {i \in 0..(Len(clean) - 1) : clean[i + 1] = keyword}
    IN  IF hits = {} THEN -1
        ELSE CHOOSE i \in hits : \A j \in hits : i <= j

sectionKeywords ==
    {"Contact", "Top Skills", "Languages", "Honors-Awards", "Publications",
     "Patents", "Certifications", "Summary", "Experience", "Education"}

\* the positions after a match of (?:\w+\s+)?\d{4} that starts at position p
YearEnds(l, p) ==
    LET e == Run(l, p, WordCh)
        f == Run(l, e + 1, WS)
    IN  (IF Len(Sub(l, p, p + 3)) = 4 /\ AllIn(l, p, p + 3, Digit) THEN {p + 4} ELSE {})
        \cup
        (IF e >= p /\ f >= e + 1 /\ Len(Sub(l, f + 1, f + 4)) = 4
            /\ AllIn(l, f + 1, f + 4, Digit)
         THEN {f + 5} ELSE {})

\* /^(?:\w+\s+)?\d{4}\s*-\s*(?:\w+\s+)?\d{4}|^(?:\w+\s+)?\d{4}\s*-\s*Present/i
dateRangePattern(l) ==
    \E q \in YearEnds(l, 1) :
        LET d == Run(l, q, WS) + 1
            r == Run(l, d + 1, WS) + 1
        IN  /\ Ch(l, d) = "-"
            /\ (YearEnds(l, r) # {} \/ MatchCI(l, r, "present"))

\* the constants of one call: the cleaned lines, the section anchors, and for
\* each line whether dateRangePattern matches it
Locals(t) ==
    LET clean == Clean(t)
    IN  [clean         |-> clean,
         n             |-> Len(clean),
         contactIdx    |-> idx(clean, "Contact"),
         topSkillsIdx  |-> idx(clean, "Top Skills"),
         languagesIdx  |-> idx(clean, "Languages"),
         summaryIdx    |-> idx(clean, "Summary"),
         experienceIdx |-> idx(clean, "Experience"),
         educationIdx  |-> idx(clean, "Education"),
         isDate        |-> [k \in 1..Len(clean) |-> dateRangePattern(clean[k])]]

\* clean[i] of the source, i counted from 0; "" stands for an index outside
\* the array (no line of clean is empty)
Line(c, i) == IF i >= 0 /\ i < c.n THEN c.clean[i + 1] ELSE ""

\* dateRangePattern.test(clean[i])
IsDate(c, i) == i >= 0 /\ i < c.n /\ c.isDate[i + 1]

(***************************************************************************)
(* Contact Extractor: regular expressions over the whole text              *)
(***************************************************************************)
\* \b at position p: exactly one of the characters p-1 and p is a word character
Boundary(t, p) == (Ch(t, p - 1) \in WordCh) # (Ch(t, p) \in WordCh)

\* [A-Za-z0-9._%+-]
EmailLocalCh == Upper \cup Lower \cup Digit \cup {".", "_", "%", "+", "-"}
\* [A-Za-z0-9.-]
EmailDomainCh == Upper \cup Lower \cup Digit \cup {".", "-"}
\* [A-Z|a-z]
EmailTldCh == Upper \cup Lower \cup {"|"}

\* the last position of [A-Z|a-z]{2,}\b tried greedily after the "." at x; 0 when none
EmailTldEnd(t, x) ==
    LET f    == Run(t, x + 1, EmailTldCh)
        ends == {z \in (x + 2)..f : Boundary(t, z + 1)}
    IN  IF ends = {} THEN 0
        ELSE CHOOSE z \in ends : \A y \in ends : y <= z

\* the last position of @[A-Za-z0-9.-]+\.[A-Z|a-z]{2,}\b with the "@" at a; 0 when none
EmailDomainEnd(t, a) ==
    LET d    == Run(t, a + 1, EmailDomainCh)
        dots == {x \in (a + 2)..d : Ch(t, x) = "." /\ EmailTldEnd(t, x) > 0}
    IN  IF dots = {} THEN 0
        ELSE EmailTldEnd(t, CHOOSE x \in dots : \A y \in dots : y <= x)

\* the last position of a match of the email pattern that starts at p; 0 when none
EmailEndAt(t, p) ==
    IF Ch(t, p) \in EmailLocalCh /\ Boundary(t, p)
    THEN LET e == Run(t, p, EmailLocalCh)
         IN  IF Ch(t, e + 1) = "@" THEN EmailDomainEnd(t, e + 1) ELSE 0
    ELSE 0

\* text.match(/\b[A-Za-z0-9._%+-]+@[A-Za-z0-9.-]+\.[A-Z|a-z]{2,}\b/)?.[0]
emailMatch(t) ==
    IF ~Includes(t, "@") THEN Undefined
    ELSE LET starts == {p \in 1..Len(t) : EmailEndAt(t, p) > 0}
         IN  IF starts = {} THEN Undefined
             ELSE LET p == CHOOSE q \in starts : \A r \in starts : q <= r
                  IN  Some(SubSeq(t, p, EmailEndAt(t, p)))

\* [\d\s.()-]
PhoneCh == Digit \cup WS \cup {".", "(", ")", "-"}

\* the last position of \d[\d\s.()-]{7,}\d with the first digit at b - 1; 0 when none
PhoneBodyEnd(t, b) ==
    LET e == Run(t, b, PhoneCh)
    IN  IF \E z \in (b + 7)..e : Ch(t, z) \in Digit
        THEN CHOOSE z \in (b + 7)..e :
                Ch(t, z) \in Digit /\ \A y \in (z + 1)..e : Ch(t, y) \notin Digit
        ELSE 0

\* the last position of a match of the phone pattern that starts at p; 0 when none
PhoneEndAt(t, p) ==
    IF Ch(t, p) = "+" /\ Ch(t, p + 1) \in Digit THEN PhoneBodyEnd(t, p + 2)
    ELSE IF Ch(t, p) \in Digit THEN PhoneBodyEnd(t, p + 1)
    ELSE 0

\* text.match(/(\+?\d[\d\s.()-]{7,}\d)/)?.[0]
phoneMatch(t) ==
    IF \E p \in 1..Len(t) : PhoneEndAt(t, p) > 0
    THEN LET p == CHOOSE q \in 1..Len(t) :
                    PhoneEndAt(t, q) > 0 /\ \A r \in 1..(q - 1) : PhoneEndAt(t, r) = 0
         IN  Some(SubSeq(t, p, PhoneEndAt(t, p)))
    ELSE Undefined

(***************************************************************************)
(* Identity & Headline Resolver                                            *)
(***************************************************************************)
nameSearchEnd(c) ==
    IF c.summaryIdx > 0 THEN c.summaryIdx
    ELSE IF c.experienceIdx > 0 THEN c.experienceIdx
    ELSE c.n

\* /^[A-Z][a-z]+$/
CapitalizedWord(l) ==
    /\ Len(l) >= 2
    /\ Ch(l, 1) \in Upper
    /\ AllIn(l, 2, Len(l), Lower)

\* the test of lastLine and of lineBeforeSummary
LooksLikeLocation(l) ==
    /\ l # ""
    /\ Len(l) < 50
    /\ ~Includes(l, "|")
    /\ (Includes(l, ",") \/ CapitalizedWord(l))

headlineEndIdx(c) ==
    LET nse == nameSearchEnd(c)
    IN  IF nse - 1 >= 0 /\ LooksLikeLocation(Line(c, nse - 1))
        THEN nse - 1 ELSE nse

\* the positions at which a word of line.split(/\s+/) starts
WordStarts(l) ==
    {i \in 1..Len(l) : Ch(l, i) \notin WS /\ (i = 1 \/ Ch(l, i - 1) \in WS)}

isPersonName(l) ==
    /\ ~(Len(l) > 40 \/ Len(l) < 2)
    /\ ~(Includes(l, "|") \/ Includes(l, "@") \/ Includes(l, "(") \/ Includes(l, ":"))
    /\ \A i \in 1..Len(l) : Ch(l, i) \notin Digit
    /\ Cardinality(WordStarts(l)) <= 5
    \* split gives an empty first or last word when the line starts or ends with white space
    /\ Ch(l, 1) \notin WS /\ Ch(l, Len(l)) \notin WS
    /\ \A i \in WordStarts(l) : Ch(l, i) \in Upper

\* the test of nextLine
LooksLikeHeadline(l) ==
    /\ l # ""
    /\ (Includes(l, "|") \/ Includes(l, " at ") \/ Includes(l, "@") \/ Len(l) > 40)

\* the search keeping the candidate farthest from the span end
nameIdx_farthest(c) ==
    LET hei  == headlineEndIdx(c)
        hits == {i \in Max(0, hei - 15)..(hei - 1) :
                    /\ isPersonName(Line(c, i))
                    /\ i + 1 < hei
                    /\ LooksLikeHeadline(Line(c, i + 1))}
    IN  IF nameSearchEnd(c) > 0 /\ hits # {}
        THEN CHOOSE i \in hits : \A j \in hits : i <= j
        ELSE -1

\* the index at which the backward search stops with a name; -1 when it finds none
nameIdx(c) ==
    LET hei  == headlineEndIdx(c)
        hits == {i \in Max(0, hei - 15)..(hei - 1) :
                    /\ isPersonName(Line(c, i))
                    /\ i + 1 < hei
                    /\ LooksLikeHeadline(Line(c, i + 1))}
    IN  IF nameSearchEnd(c) > 0 /\ hits # {}
        THEN CHOOSE i \in hits : \A j \in hits : j <= i
        ELSE -1

\* name initialised to "" instead of left undefined
name_initEmpty(c) ==
    IF nameIdx(c) = -1 THEN Some("") ELSE Some(Line(c, nameIdx(c)))

name(c) ==
    IF nameIdx(c) = -1 THEN Undefined ELSE Some(Line(c, nameIdx(c)))

headlineStartIdx(c) ==
    IF nameIdx(c) = -1 THEN -1 ELSE nameIdx(c) + 1

\* summaryIdx > 0 && summaryIdx >= 2 and the test of lineBeforeSummary
locationFound(c) ==
    /\ c.summaryIdx > 0
    /\ c.summaryIdx >= 2
    /\ LooksLikeLocation(Line(c, c.summaryIdx - 1))

location(c) ==
    IF locationFound(c) THEN Some(Line(c, c.summaryIdx - 1)) ELSE Undefined

\* the headline left to run up to Summary, the location line included
headlineActualEnd_noShrink(c) == nameSearchEnd(c)

headlineActualEnd(c) ==
    IF locationFound(c) THEN c.summaryIdx - 1 ELSE nameSearchEnd(c)

\* clean[from], ..., clean[to - 1]
Slice(c, from, to) ==
    [k \in 1..Max(0, to - from) |-> Line(c, from + k - 1)]

headline(c) ==
    LET hsi == headlineStartIdx(c)
        hae == headlineActualEnd(c)
    IN  IF hsi > 0 /\ hsi < hae
        THEN OrUndefined(Trim(Join(Slice(c, hsi, hae), " ")))
        ELSE Undefined

(***************************************************************************)
(* Skills Extractor                                                        *)
(***************************************************************************)
skillEnd(c) ==
    IF c.languagesIdx > c.topSkillsIdx
    THEN c.languagesIdx ELSE c.topSkillsIdx + 10

\* the skills loop bounded by skillEnd alone
skillLoopEnd_noMin(c) == skillEnd(c)

\* the bound of the skills loop: Math.min(skillEnd, clean.length)
skillLoopEnd(c) == Min(skillEnd(c), c.n)

\* the skills loop without its break at a section keyword
skillStop_noBreak(c) == Max(c.topSkillsIdx + 1, skillLoopEnd(c))

\* the index at which the skills loop stops: its bound, or the break at a section keyword
skillStop(c) ==
    LET from  == c.topSkillsIdx + 1
        to    == skillLoopEnd(c)
        brks  == {i \in from..(to - 1) : Line(c, i) \in sectionKeywords}
    IN  IF brks = {} THEN Max(from, to)
        ELSE CHOOSE i \in brks : \A j \in brks : i <= j

Under50(l) == Len(l) < 50

\* the test topSkillsIdx >= 0 forgotten
skills_noGuard(c) ==
    SelectSeq(Slice(c, c.topSkillsIdx + 1, skillStop(c)), Under50)

skills(c) ==
    IF c.topSkillsIdx >= 0
    THEN SelectSeq(Slice(c, c.topSkillsIdx + 1, skillStop(c)), Under50)
    ELSE <<>>

(***************************************************************************)
(* Paragraph Reflow Engine                                                 *)
(***************************************************************************)
\* the characters of /^[-...]/ that can be written here: the dash
BulletGlyphs == {"-"}

\* /^(\d+[\.\)]|\([a-z]\))/
ListMarker(l) ==
    \/ LET e == Run(l, 1, Digit) IN e >= 1 /\ Ch(l, e + 1) \in {".", ")"}
    \/ Ch(l, 1) = "(" /\ Ch(l, 2) \in Lower /\ Ch(l, 3) = ")"

\* /^[A-Z][A-Z\s&]+:/
UpperHeading(l) ==
    /\ Ch(l, 1) \in Upper
    /\ LET e == Run(l, 2, Upper \cup WS \cup {"&"}) IN e >= 2 /\ Ch(l, e + 1) = ":"

\* the test without its bullet-glyph alternative
isNewParagraph_noBullet(l) ==
    \/ ListMarker(l)
    \/ (Ch(l, Len(l)) = ":" /\ Len(l) < 60)
    \/ UpperHeading(l)
    \/ (Ch(l, 1) = " " /\ Len(Trim(l)) > 0)

isNewParagraph(l) ==
    \/ Ch(l, 1) \in BulletGlyphs
    \/ ListMarker(l)
    \/ (Ch(l, Len(l)) = ":" /\ Len(l) < 60)
    \/ UpperHeading(l)
    \/ (Ch(l, 1) = " " /\ Len(Trim(l)) > 0)

\* the loop of reflowText from line i (1-based here) with the paragraphs closed
\* so far and the paragraph being built
RECURSIVE ReflowLoop(_, _, _, _)
ReflowLoop(ls, i, done, current) ==
    IF i > Len(ls) THEN Append(done, Trim(current))
    ELSE IF isNewParagraph(ls[i])
         THEN ReflowLoop(ls, i + 1, Append(done, Trim(current)), ls[i])
         ELSE ReflowLoop(ls, i + 1, done, current \o " " \o ls[i])

\* the paragraphs joined with a space instead of a newline
reflowText_spaceJoined(ls) ==
    IF Len(ls) = 0 THEN ""
    ELSE Trim(Join(ReflowLoop(ls, 2, <<>>, ls[1]), " "))

reflowText(ls) ==
    IF Len(ls) = 0 THEN ""
    ELSE Trim(Join(ReflowLoop(ls, 2, <<>>, ls[1]), "\n"))

(***************************************************************************)
(* Summary                                                                 *)
(***************************************************************************)
sumEnd(c) ==
    IF c.experienceIdx > c.summaryIdx
    THEN c.experienceIdx ELSE c.summaryIdx + 40

\* the index at which the summary loop stops: its bound, or the break at a heading
sumStop(c) ==
    LET from == c.summaryIdx + 1
        to   == Min(sumEnd(c), c.n)
        brks == {i \in from..(to - 1) : Line(c, i) \in {"Experience", "Education"}}
    IN  IF brks = {} THEN Max(from, to)
        ELSE CHOOSE i \in brks : \A j \in brks : i <= j

sumLines(c) == Slice(c, c.summaryIdx + 1, sumStop(c))

summary(c) ==
    IF c.summaryIdx >= 0
    THEN OrUndefined(reflowText(sumLines(c)))
    ELSE Undefined

(***************************************************************************)
(* Experience Segmenter                                                    *)
(***************************************************************************)
\* dateLine.match(/^(.+?)\s*-\s*([^(]+)/): the lengths k of group 1 that let the rest match
DateSplits(l) ==
    {k \in 1..Len(l) :
        /\ \A i \in 1..k : Ch(l, i) \notin LineTerm
        /\ LET d == Run(l, k + 1, WS) + 1
               r == Run(l, d + 1, WS)
           IN  /\ Ch(l, d) = "-"
               /\ (Ch(l, r + 1) \notin {"", "("} \/ r >= d + 1)}

\* group 2 of the match whose group 1 has length k
DateGroup2(l, k) ==
    LET d == Run(l, k + 1, WS) + 1
        r == Run(l, d + 1, WS)
    IN  IF Ch(l, r + 1) \notin {"", "("}
        THEN LET parens == {i \in (r + 1)..Len(l) : Ch(l, i) = "("}
                 stop   == IF parens = {} THEN Len(l) + 1
                           ELSE CHOOSE i \in parens : \A j \in parens : i <= j
             IN  Sub(l, r + 1, stop - 1)
        ELSE Ch(l, r)

startDate(l) ==
    IF DateSplits(l) = {} THEN l
    ELSE Trim(Sub(l, 1, CHOOSE k \in DateSplits(l) : \A j \in DateSplits(l) : k <= j))

endDate(l) ==
    IF DateSplits(l) = {} THEN "Present"
    ELSE Trim(DateGroup2(l, CHOOSE k \in DateSplits(l) : \A j \in DateSplits(l) : k <= j))

\* the Experience span run to the end of the stream, Education or not
expEnd_streamEnd(c) == c.n

expEnd(c) ==
    IF c.educationIdx > c.experienceIdx THEN c.educationIdx ELSE c.n

Countries == {"United States", "India", "Singapore", "Sweden", "Germany", "UK", "Canada"}

\* the test that makes clean[i + 1] the location of the entry anchored at i
expHasLocation(c, i) ==
    LET nextLine == Line(c, i + 1)
    IN  /\ i + 1 < expEnd(c)
        /\ nextLine # ""
        /\ Len(nextLine) < 50
        /\ ~IsDate(c, i + 1)
        /\ \/ Includes(nextLine, ",")
           \/ \E country \in Countries : Includes(nextLine, country)
           \/ (Ch(nextLine, 1) \in Upper /\ Ch(nextLine, 2) \in Lower)
        /\ ~(i + 3 < expEnd(c) /\ IsDate(c, i + 3))

\* the description started right after the date line, location or not
descStart_noSkip(c, i) == i + 1

descStart(c, i) == IF expHasLocation(c, i) THEN i + 2 ELSE i + 1

\* the index at which the description loop of the entry anchored at i stops
descStop(c, i) ==
    LET from == descStart(c, i)
        to   == expEnd(c)
        brks == {j \in from..(to - 1) :
                    \/ (j + 1 < to /\ IsDate(c, j + 1))
                    \/ (j + 2 < to /\ IsDate(c, j + 2))}
    IN  IF brks = {} THEN Max(from, to)
        ELSE CHOOSE j \in brks : \A k \in brks : j <= k

descLines(c, i) == Slice(c, descStart(c, i), descStop(c, i))

\* the entry pushed for the date-range line at index i
expEntry(c, i) ==
    LET ei      == c.experienceIdx
        title   == IF i >= ei + 2 THEN Line(c, i - 1) ELSE "Unknown"
        company == IF i >= ei + 3 THEN Line(c, i - 2)
                   ELSE IF i >= ei + 2 THEN Line(c, i - 1) ELSE "Unknown"
    IN  [title       |-> IF title # company THEN title ELSE "Unknown",
         company     |-> company,
         start_date  |-> startDate(Line(c, i)),
         end_date    |-> endDate(Line(c, i)),
         location    |-> IF expHasLocation(c, i)
                         THEN OrUndefined(Line(c, i + 1)) ELSE Undefined,
         description |-> OrUndefined(reflowText(descLines(c, i)))]

\* the indices of the date-range lines of the Experience span, ascending
RECURSIVE AnchorsFrom(_, _)
AnchorsFrom(c, i) ==
    IF i >= expEnd(c) THEN <<>>
    ELSE IF IsDate(c, i)
         THEN <<i>> \o AnchorsFrom(c, i + 1)
         ELSE AnchorsFrom(c, i + 1)

expAnchors(c) ==
    IF c.experienceIdx >= 0 THEN AnchorsFrom(c, c.experienceIdx + 1) ELSE <<>>

experience(c) ==
    LET anchors == expAnchors(c)
    IN  [k \in 1..Len(anchors) |-> expEntry(c, anchors[k])]

(***************************************************************************)
(* Education Segmenter                                                     *)
(***************************************************************************)
\* the pattern anchored at both ends: a line that is four digits and no more
StartsWithYear_whole(l) == Len(l) = 4 /\ AllIn(l, 1, 4, Digit)

\* /^\d{4}/
StartsWithYear(l) == Len(l) >= 4 /\ AllIn(l, 1, 4, Digit)

\* the index after the lines the inner while loop skips from i
RECURSIVE SkipYears(_, _)
SkipYears(c, i) ==
    IF i < c.n /\ Line(c, i) # "" /\ StartsWithYear(Line(c, i))
    THEN SkipYears(c, i + 1) ELSE i

RECURSIVE EducationFrom(_, _)
EducationFrom(c, i) ==
    IF i >= c.n \/ Line(c, i) = "" THEN <<>>
    ELSE <<[school |-> Line(c, i),
            degree |-> IF i + 1 < c.n THEN Some(Line(c, i + 1)) ELSE Undefined]>>
         \o EducationFrom(c, SkipYears(c, i + 2))

education(c) ==
    IF c.educationIdx >= 0 THEN EducationFrom(c, c.educationIdx + 1) ELSE <<>>

(***************************************************************************)
(* Profile Assembler                                                       *)
(***************************************************************************)
\* experience.slice(0, 20)
MaxExperience == 20
\* education.slice(0, 10)
MaxEducation == 10

\* the cap forgotten
Slice0_noCap(seq, n) == seq

\* Array.prototype.slice(0, n)
Slice0(seq, n) == SubSeq(seq, 1, Min(n, Len(seq)))

\* the returned record, from the text and the constants of the call
profile(t, c) ==
        [name       |-> name(c),
         email      |-> emailMatch(t),
         phone      |-> phoneMatch(t),
         location   |-> location(c),
         headline   |-> headline(c),
         summary    |-> summary(c),
         skills     |-> skills(c),
         experience |-> Slice0(experience(c), MaxExperience),
         education  |-> Slice0(education(c), MaxEducation)]

extractBasicInfo(t) == profile(t, Locals(t))

(***************************************************************************)
(* The indices of clean that extractBasicInfo reads, stage by stage, and   *)
(* the reads whose value it then uses as a string (a property access on    *)
(* undefined raises TypeError)                                             *)
(***************************************************************************)
\* the indices the backward name search visits before it stops
nameVisited(c) ==
    LET hei   == headlineEndIdx(c)
        found == nameIdx(c)
    IN  IF nameSearchEnd(c) > 0
        THEN {i \in Max(0, hei - 15)..(hei - 1) : i >= found}
        ELSE {}

\* clean[nameSearchEnd - 1], clean[i] and clean[i + 1] of the name search
nameReads(c) ==
    LET visited == nameVisited(c)
        hei     == headlineEndIdx(c)
    IN  (IF nameSearchEnd(c) > 0 /\ nameSearchEnd(c) - 1 >= 0
         THEN {nameSearchEnd(c) - 1} ELSE {})
        \cup visited
        \cup {i + 1 : i \in {j \in visited : isPersonName(Line(c, j)) /\ j + 1 < hei}}

\* the indices visited by for (i = from; i < to; i++) when from > 0 && from < to
headlineLoop(from, to) == IF from > 0 /\ from < to THEN from..(to - 1) ELSE {}

\* the indices of the lines pushed to headlineLines
headlineLineIdxs(c) == headlineLoop(headlineStartIdx(c), headlineActualEnd(c))

\* clean[summaryIdx - 1] and the lines pushed to headlineLines
headlineReads(c) ==
    (IF c.summaryIdx > 0 /\ c.summaryIdx >= 2
     THEN {c.summaryIdx - 1} ELSE {})
    \cup headlineLineIdxs(c)

\* clean[i] of the skills loop, the line it breaks at included
skillReads(c) ==
    IF c.topSkillsIdx >= 0
    THEN LET to   == skillLoopEnd(c)
             stop == skillStop(c)
         IN  {i \in (c.topSkillsIdx + 1)..(skillEnd(c) - 1) : i < to /\ i <= stop}
    ELSE {}

\* clean[i] of the summary loop, the line it breaks at included
sumReads(c) ==
    IF c.summaryIdx >= 0
    THEN LET to   == Min(sumEnd(c), c.n)
             stop == sumStop(c)
         IN  {i \in (c.summaryIdx + 1)..(sumEnd(c) - 1) : i < to /\ i <= stop}
    ELSE {}

\* the reads made for the entry anchored at i
entryReads(c, i) ==
    LET ei == c.experienceIdx
        to == expEnd(c)
        nextLine == Line(c, i + 1)
        stop == descStop(c, i)
    IN  (IF i >= ei + 2 THEN {i - 1} ELSE {})
        \cup (IF i >= ei + 3 THEN {i - 2} ELSE {})
        \cup (IF i + 1 < to THEN {i + 1} ELSE {})
        \cup (IF /\ i + 1 < to /\ nextLine # "" /\ Len(nextLine) < 50
                 /\ ~IsDate(c, i + 1)
                 /\ \/ Includes(nextLine, ",")
                    \/ \E country \in Countries : Includes(nextLine, country)
                    \/ (Ch(nextLine, 1) \in Upper /\ Ch(nextLine, 2) \in Lower)
                 /\ i + 3 < to
              THEN {i + 3} ELSE {})
        \cup UNION {{j} \cup (IF j + 1 < to THEN {j + 1} ELSE {})
                        \cup (IF j + 2 < to /\ ~(j + 1 < to /\ IsDate(c, j + 1))
                              THEN {j + 2} ELSE {}) :
                    j \in {k \in descStart(c, i)..(to - 1) : k <= stop}}

expReads(c) ==
    IF c.experienceIdx >= 0
    THEN LET anchors == expAnchors(c)
         IN  ((c.experienceIdx + 1)..(expEnd(c) - 1))
             \cup UNION {entryReads(c, anchors[k]) : k \in 1..Len(anchors)}
    ELSE {}

\* the reads of the education walk from index i
RECURSIVE eduReadsFrom(_, _)
eduReadsFrom(c, i) ==
    IF i >= c.n THEN {}
    ELSE IF Line(c, i) = "" THEN {i}
    ELSE {i} \cup (IF i + 1 < c.n THEN {i + 1} ELSE {})
             \cup {j \in (i + 2)..SkipYears(c, i + 2) : j < c.n}
             \cup eduReadsFrom(c, SkipYears(c, i + 2))

eduReads(c) ==
    IF c.educationIdx >= 0 THEN eduReadsFrom(c, c.educationIdx + 1) ELSE {}

reads(c) ==
    nameReads(c) \cup headlineReads(c) \cup skillReads(c)
    \cup sumReads(c) \cup expReads(c) \cup eduReads(c)

\* the reads whose value is used as a string without a test for undefined:
\* line.length in isPersonName and in the skills loop, and the lines handed to
\* reflowText (line.endsWith, current.trim)
derefReads(c) ==
    nameVisited(c)
    \cup {i \in skillReads(c) : Line(c, i) \notin sectionKeywords}
    \cup (LET stop == sumStop(c) IN {i \in sumReads(c) : i < stop})
    \cup (IF c.experienceIdx >= 0
          THEN LET anchors == expAnchors(c)
               IN  UNION {descStart(c, anchors[k])..(descStop(c, anchors[k]) - 1) :
                            k \in 1..Len(anchors)}
          ELSE {})

InBounds(c, i) == i >= 0 /\ i < c.n

\* the call raises TypeError: it uses clean[i] as a string for an i outside the array
raises(c) == \E i \in derefReads(c) : ~InBounds(c, i)

(***************************************************************************)
(* extractBasicInfo as a step: the call and what it returns                *)
(***************************************************************************)
NoResult == [kind |-> "none"]

\* what a call of extractBasicInfo(t) ends with: the returned record or the
\* exception, with the indices of clean it read, the length of clean, the
\* indices of the lines it assembled into the headline and the index at which
\* it ended the identity span
Outcome(t) ==
    LET c == Locals(t)
    IN  IF raises(c)
        THEN [kind |-> "TypeError", reads |-> reads(c), n |-> c.n]
        ELSE [kind |-> "returned", profile |-> profile(t, c),
              reads |-> reads(c), n |-> c.n,
              headlineLines |-> headlineLineIdxs(c),
              spanEnd |-> nameSearchEnd(c)]

(***************************************************************************)
(* The texts extractBasicInfo is called with                               *)
(***************************************************************************)
\* the longest generic text, in lines
MaxLines == 3
\* the most lines under the Summary heading
MaxSummaryLines == 40
\* the most lines in a run of skills under Top Skills
MaxSkillLines == 11
\* the most headline lines of a text in the canonical layout
MaxHeadlineLines == 15
\* the most lines of a free-form Experience span
MaxSpanLines == 4
\* the most date-range lines, and the most lines after Education, of a repetitive text
MaxDateLines == 21
MaxSchoolLines == 21

SeqsUpTo(S, n) == UNION {[1..k -> S] : k \in 0..n}

\* n copies of line l
Repeat(l, n) == [k \in 1..n |-> l]

\* the text whose lines, split at line breaks, are ls
TextOf(ls) == Join(ls, "\n")

\* empty and white-space-only texts
BlankTexts == {"", " ", "\n", "\n\n", " \t\n  \r\n"}

GenericLines ==
    {"Summary", "Experience", "Education", "Top Skills", "Jane Doe", "Lead | Builder",
     "Pune, IN", "2019 - 2020", " Mail: x@y.io ", "Page 1 of 2"}

GenericTexts == {TextOf(ls) : ls \in SeqsUpTo(GenericLines, MaxLines)}

\* the anchors the code uses, in every order and every subset, bare or each
\* followed by the same four lines
AnchorLines == {"Top Skills", "Languages", "Summary", "Experience", "Education"}

HeaderOrders ==
    {o \in SeqsUpTo(AnchorLines, Cardinality(AnchorLines)) :
        \A i, j \in 1..Len(o) : i # j => o[i] # o[j]}

SectionBodies == {<<>>, <<"Jane Doe", "Lead | Builder", "2019 - 2020", "Pune, IN">>}

RECURSIVE Sections(_, _)
Sections(o, body) ==
    IF o = <<>> THEN <<>> ELSE <<Head(o)>> \o body \o Sections(Tail(o), body)

HeaderTexts == {TextOf(Sections(o, b)) : o \in HeaderOrders, b \in SectionBodies}

\* the canonical layout of the sidebar and the identity block
CanonicalTexts ==
    {TextOf(<<"Contact", "Top Skills">> \o sk \o <<"Languages">> \o mid \o <<nm>>
            \o Repeat(hl, k) \o <<"San Francisco, CA", "Summary">> \o tail) :
        sk \in SeqsUpTo({"Python", "React"}, 2),
        mid \in {<<>>, <<"English">>},
        nm \in {"Jane Doe", "Raj"},
        hl \in {"Senior Engineer | Builder"},
        k \in 1..MaxHeadlineLines,
        tail \in {<<>>, <<"Builds things.", "Experience">>}}

\* one job block, and free-form Experience spans
DateLines == {"January 2019 - Present", "2019 - 2020", "Mar 2018-Feb 2019 (1 year)"}
PlaceLines == {"Remote", "Pune, IN"}
ProseLines == {"Shipped the widget.", "- Reduced latency by 40%.", "Key wins:"}

JobTexts ==
    {TextOf(pre \o <<"Experience", "Acme Corp", "Staff Engineer", d, l>> \o desc \o post) :
        pre \in {<<>>, <<"Summary", "Builds things.">>, <<"Education", "MIT">>},
        d \in DateLines,
        l \in PlaceLines,
        desc \in SeqsUpTo(ProseLines, 2),
        post \in {<<>>, <<"Education", "MIT", "BSc">>}}

SpanLines == {"Acme Corp", "2019 - 2020", "Pune, IN", "Shipped the widget."}

SpanTexts == {TextOf(<<"Experience">> \o ls) : ls \in SeqsUpTo(SpanLines, MaxSpanLines)}

\* many date-range lines in the Experience span, many lines after Education
RepetitiveText(n, m) ==
    TextOf(<<"Experience">> \o Repeat("2019 - Present", n)
           \o <<"Education">> \o Repeat("MIT", m))

RepetitiveTexts ==
    {RepetitiveText(n, m) : n \in 0..MaxDateLines, m \in {0, MaxSchoolLines}}
    \cup {RepetitiveText(0, m) : m \in 0..MaxSchoolLines}

\* candidate name lines at the edges of the person-name test, each followed by
\* a candidate headline line
NameLines ==
    {"Jane Doe", "Al", "J", "Jane Doe)", "Jane Doe (She)", "Dr: Jane", "Jane2 Doe",
     "jane Doe", "Ann Bo Cy Di Ed", "Ann Bo Cy Di Ed Flo",
     "Abcdefghi Abcdefghi Abcdefghi Abcdefghij",
     "Abcdefghi Abcdefghi Abcdefghi Abcdefghijk"}

NextLines ==
    {"Lead | Builder", "Engineer at Acme", "me@acme.io", "plain line",
     "building reliable systems for a long time",
     "building reliable systems for a long tim"}

NameTexts ==
    {TextOf(pre \o <<nm, hl>> \o tail) :
        pre \in {<<>>, <<"Jane Doe", "Lead | Builder">>},
        nm \in NameLines,
        hl \in NextLines,
        tail \in {<<>>, <<"Summary">>, <<"Pune, IN", "Summary">>}}

\* the lines under Top Skills: runs of short lines, a line of 50 characters
\* among lines of 49 and fewer, a section header among them
SkillBodies ==
    {Repeat("Python", k) : k \in 0..MaxSkillLines}
    \cup {<<"Python", "Distributed systems design and capacity plannings", "React", "Python">>,
           <<"Python", "Distributed systems design and capacity planning 1", "Python", "Summary", "Go">>,
           <<"Go", "Contact", "React">>}

SkillTexts ==
    {TextOf(pre \o <<"Top Skills">> \o body \o post) :
        pre \in {<<>>, <<"Languages", "English">>},
        body \in SkillBodies,
        post \in {<<>>, <<"Languages", "English">>}}

\* different date-range lines in the Experience span, in every order, with
\* Education (and a date-range line under it) before and after
DatedLines == {"2019 - 2020", "Jan 2021 - Present", "Acme Corp"}

DatedTexts ==
    {TextOf(pre \o <<"Experience">> \o ls \o post) :
        pre \in {<<>>, <<"Education", "2010 - 2014">>},
        ls \in SeqsUpTo(DatedLines, MaxSpanLines),
        post \in {<<>>, <<"Education", "2015 - 2019">>}}

\* prose under Summary and under a job, its second line indented or not in
\* the text as pdfParse gives it
IndentedTexts ==
    {TextOf(head \o <<"Builds things.", second, "Runs teams.">>) :
        head \in {<<"Summary">>,
                  <<"Experience", "Acme Corp", "Staff Engineer", "2019 - 2020", "Remote">>},
        second \in {"Ships often.", "  Ships often."}}

\* one school and its degree, then years, date ranges, lines that begin with
\* a year and further schools, in every order
EduLines == {"2015", "2015 - 2019", "2019 Graduated with honours", "Stanford"}

EduTexts ==
    {TextOf(<<"Education", "MIT", "BSc">> \o ls) : ls \in SeqsUpTo(EduLines, MaxLines)}

\* lines with digits and separators: a phone number, a short numeric token,
\* counts and ranges in prose, a year
PhoneLines ==
    {"+1 (555) 010-9999", "555-0100", "Led 5 - 10 - 15 people", "2019 - 20", "2019", "Jane Doe"}

PhoneTexts == {TextOf(ls) : ls \in SeqsUpTo(PhoneLines, 2)}

\* a Summary heading with one line, and with as many lines as the summary
\* loop visits and more, under it and nothing after
SummaryTexts ==
    {TextOf(<<"Summary">> \o Repeat("Builds things.", k)) :
        k \in {1} \cup (MaxSummaryLines - 1)..MaxSummaryLines}

Texts ==
    SummaryTexts \cup PhoneTexts \cup EduTexts \cup IndentedTexts \cup DatedTexts \cup SkillTexts \cup BlankTexts \cup GenericTexts \cup HeaderTexts \cup CanonicalTexts
    \cup JobTexts \cup SpanTexts \cup RepetitiveTexts \cup NameTexts

(***************************************************************************)
(* Specification of one call of extractBasicInfo                           *)
(***************************************************************************)
NoFile == [kind |-> "absent"]

\* the step just taken answered no GET request
NoGet == [route |-> "none"]

Init ==
    /\ text \in Texts
    /\ phase = "input"
    /\ result = NoResult
    /\ pdfLines = <<>>
    /\ reflowed = <<>>
    /\ profilesFile = NoFile
    /\ usersFile = NoFile
    /\ reqs = <<>>
    /\ nextId = 1
    /\ lastGet = NoGet

\* the call extractBasicInfo(text), from entry to return or exception
Extract ==
    /\ phase = "input"
    /\ result' = Outcome(text)
    /\ phase' = "returned"
    /\ UNCHANGED <<lastGet, text, pdfLines, reflowed, profilesFile, usersFile, reqs, nextId>>

Next == Extract

Spec == Init /\ [][Next]_vars

(***************************************************************************)
(* Properties of extractBasicInfo                                          *)
(***************************************************************************)
Returned == phase = "returned" /\ result.kind = "returned"

\* the record with every optional field absent and every list empty
EmptyProfile ==
    [name |-> Undefined, email |-> Undefined, phone |-> Undefined,
     location |-> Undefined, headline |-> Undefined, summary |-> Undefined,
     skills |-> <<>>, experience |-> <<>>, education |-> <<>>]

\* the text is empty or consists of white space and line breaks only
Blank(t) == \A i \in 1..Len(t) : Ch(t, i) \in WS

\* C1: for an empty or white-space-only text the call returns, without
\* raising, the record with every optional field absent and every list empty
C1_BlankTextGivesEmptyProfile ==
    (phase = "returned" /\ Blank(text))
        => (result.kind = "returned" /\ result.profile = EmptyProfile)

C1_Witness ==
    /\ Returned
    /\ Blank(text)
    /\ Len(text) > 0
    /\ result.profile.name = Undefined
    /\ result.profile.skills = <<>>

\* no line of the normalized stream is a section header
NoHeaderLine(t) ==
    LET clean == Clean(t) IN \A k \in 1..Len(clean) : clean[k] \notin sectionKeywords

\* C2 as stated: without any section header line every optional field is
\* absent and every list is empty
C2_NoHeaderAllAbsent ==
    (phase = "returned" /\ NoHeaderLine(text))
        => (result.kind = "returned" /\ result.profile = EmptyProfile)

\* C2 as amended: without any section header line the call returns with
\* location and summary absent and skills, experience and education empty
\* (name, headline, email and phone are not scoped by a header and can be present)
C2_NoHeaderAnchoredFieldsAbsent ==
    (phase = "returned" /\ NoHeaderLine(text))
        => /\ result.kind = "returned"
           /\ result.profile.location = Undefined
           /\ result.profile.summary = Undefined
           /\ result.profile.skills = <<>>
           /\ result.profile.experience = <<>>
           /\ result.profile.education = <<>>

C2_Witness ==
    /\ Returned
    /\ NoHeaderLine(text)
    /\ Len(Clean(text)) >= 2
    /\ result.profile.name # Undefined
    /\ result.profile.email # Undefined
    /\ result.profile.location = Undefined

\* C3: the returned experience list has at most 20 entries and the returned
\* education list at most 10
C3_ListCaps ==
    Returned => /\ Len(result.profile.experience) <= 20
                /\ Len(result.profile.education) <= 10

C3_Witness ==
    /\ Returned
    /\ Len(experience(Locals(text))) > 20
    /\ Len(education(Locals(text))) > 10
    /\ Len(result.profile.experience) = 20
    /\ Len(result.profile.education) = 10

\* C5: no optional field of the returned record, of an experience entry or of
\* an education entry is the empty string
C5_NoEmptyStringField ==
    Returned =>
        /\ \A f \in {"name", "email", "phone", "location", "headline", "summary"} :
                result.profile[f] # Some("")
        /\ \A k \in 1..Len(result.profile.experience) :
                /\ result.profile.experience[k].location # Some("")
                /\ result.profile.experience[k].description # Some("")
        /\ \A k \in 1..Len(result.profile.education) :
                result.profile.education[k].degree # Some("")

\* a Summary heading with nothing under it and an entry without description
C5_Witness ==
    /\ Returned
    /\ LET c == Locals(text)
       IN  c.summaryIdx >= 0 /\ reflowText(sumLines(c)) = ""
    /\ result.profile.summary = Undefined
    /\ \E k \in 1..Len(result.profile.experience) :
            /\ result.profile.experience[k].description = Undefined
            /\ result.profile.experience[k].location = Undefined

\* the position (from 1) of the first line of cl equal to header h; 0 when there is none
FirstAt(cl, h) ==
    IF \E k \in 1..Len(cl) : cl[k] = h
    THEN CHOOSE k \in 1..Len(cl) : cl[k] = h /\ \A j \in 1..(k - 1) : cl[j] # h
    ELSE 0

\* the canonical layout with the name line at position np: Top Skills, skill
\* lines under 50 characters, Languages, later the name line, one or more
\* headline lines with a pipe, a location line with a comma, Summary
CanonicalLayout(cl, np) ==
    LET ts == FirstAt(cl, "Top Skills")
        lg == FirstAt(cl, "Languages")
        su == FirstAt(cl, "Summary")
    IN  /\ 0 < ts /\ ts < lg /\ lg < np /\ np + 2 < su
        /\ \A k \in (ts + 1)..(lg - 1) : Len(cl[k]) < 50 /\ cl[k] \notin sectionKeywords
        /\ isPersonName(cl[np])
        /\ \A k \in (np + 1)..(su - 2) : Includes(cl[k], "|")
        /\ Len(cl[su - 1]) < 50
        /\ Includes(cl[su - 1], ",")
        /\ ~Includes(cl[su - 1], "|")

\* the record the canonical layout is expected to give
CanonicalFields(cl, np) ==
    LET ts == FirstAt(cl, "Top Skills")
        lg == FirstAt(cl, "Languages")
        su == FirstAt(cl, "Summary")
    IN  /\ result.kind = "returned"
        /\ result.profile.name = Some(cl[np])
        /\ result.profile.headline = Some(Join(SubSeq(cl, np + 1, su - 2), " "))
        /\ result.profile.location = Some(cl[su - 1])
        /\ result.profile.skills = SubSeq(cl, ts + 1, lg - 1)

\* the number of headline lines of the layout with the name line at np
HeadlineLineCount(cl, np) == FirstAt(cl, "Summary") - 2 - np

\* C6 as stated: in the canonical layout, with any number of headline lines,
\* name is the name line, headline the headline lines joined by single spaces,
\* location the location line and skills the lines between Top Skills and Languages
C6_CanonicalLayoutAnyHeadline ==
    phase = "returned" =>
        LET cl == Clean(text)
        IN  \A np \in 1..Len(cl) : CanonicalLayout(cl, np) => CanonicalFields(cl, np)

\* C6 as amended: the same, for a headline of at most 14 lines (the name
\* search looks at the 15 lines before the location line)
C6_CanonicalLayoutShortHeadline ==
    phase = "returned" =>
        LET cl == Clean(text)
        IN  \A np \in 1..Len(cl) :
                (CanonicalLayout(cl, np) /\ HeadlineLineCount(cl, np) <= 14)
                    => CanonicalFields(cl, np)

\* a canonical layout with two skills and a headline of exactly 14 lines
C6_Witness ==
    /\ Returned
    /\ LET cl == Clean(text)
       IN  \E np \in 1..Len(cl) :
                /\ CanonicalLayout(cl, np)
                /\ HeadlineLineCount(cl, np) = 14
                /\ FirstAt(cl, "Languages") - FirstAt(cl, "Top Skills") = 3
                /\ CanonicalFields(cl, np)

\* the position after the last line of the Experience span of cl: the first
\* Education line when it follows the first Experience line, else end-of-stream
SpanEnd(cl) ==
    IF FirstAt(cl, "Education") > FirstAt(cl, "Experience")
    THEN FirstAt(cl, "Education") ELSE Len(cl) + 1

\* the positions at which line d reads S - E: a " - " with no dash before it
\* and no parenthesis after it
DashAt(d) ==
    {p \in 2..(Len(d) - 3) :
        /\ SubSeq(d, p, p + 2) = " - "
        /\ ~Includes(SubSeq(d, 1, p - 1), "-")
        /\ ~Includes(SubSeq(d, p + 3, Len(d)), "(")
        /\ Ch(d, 1) \notin WS /\ Ch(d, p - 1) \notin WS
        /\ Ch(d, p + 3) \notin WS /\ Ch(d, Len(d)) \notin WS}

\* the Experience span of cl is exactly one job block: company, title
\* (different), a date-range line S - E, a location line (under 50 characters,
\* starting with a capitalized word), one or more description lines, and no
\* other date-range line
OneJobBlock(cl) ==
    LET e   == FirstAt(cl, "Experience")
        end == SpanEnd(cl)
    IN  /\ e > 0
        /\ e + 5 < end
        /\ cl[e + 1] # cl[e + 2]
        /\ dateRangePattern(cl[e + 3])
        /\ DashAt(cl[e + 3]) # {}
        /\ Len(cl[e + 4]) < 50
        /\ Ch(cl[e + 4], 1) \in Upper /\ Ch(cl[e + 4], 2) \in Lower
        /\ \A k \in (e + 1)..(end - 1) : k # e + 3 => ~dateRangePattern(cl[k])

\* C7: an Experience span that is exactly one job block gives exactly one
\* entry, with company, title and location the block's lines, start_date and
\* end_date the two sides of the date-range line, and description the reflow
\* of the description lines
C7_OneJobBlockOneEntry ==
    (phase = "returned" /\ OneJobBlock(Clean(text))) =>
        LET cl  == Clean(text)
            e   == FirstAt(cl, "Experience")
            d   == cl[e + 3]
        IN  /\ result.kind = "returned"
            /\ Len(result.profile.experience) = 1
            /\ result.profile.experience[1].company = cl[e + 1]
            /\ result.profile.experience[1].title = cl[e + 2]
            /\ \A p \in DashAt(d) :
                    /\ result.profile.experience[1].start_date = SubSeq(d, 1, p - 1)
                    /\ result.profile.experience[1].end_date = SubSeq(d, p + 3, Len(d))
            /\ result.profile.experience[1].location = Some(cl[e + 4])
            /\ result.profile.experience[1].description
                    = Some(reflowText(SubSeq(cl, e + 5, SpanEnd(cl) - 1)))

\* a job block still employed, with two description lines, closed by Education
C7_Witness ==
    /\ Returned
    /\ OneJobBlock(Clean(text))
    /\ LET cl == Clean(text)
       IN  /\ SpanEnd(cl) = FirstAt(cl, "Experience") + 7
           /\ SpanEnd(cl) <= Len(cl)
    /\ Len(result.profile.experience) = 1
    /\ result.profile.experience[1].end_date = "Present"
    /\ result.profile.experience[1].location = Some("Remote")
    /\ result.profile.experience[1].description # Undefined

\* C9: whatever section headers the line stream holds and wherever they
\* stand, the call returns a record, without raising, and every index of
\* clean it read lies in 0 .. clean.length - 1
C9_ReturnsAndReadsInBounds ==
    phase = "returned" =>
        /\ result.kind = "returned"
        /\ result.reads \subseteq 0..(result.n - 1)

\* headers out of the canonical order, one at index 0 and one as the last
\* line, and a call that read the last line
C9_Witness ==
    /\ Returned
    /\ LET c == Locals(text)
       IN  /\ c.educationIdx >= 0
           /\ c.educationIdx < c.experienceIdx
           /\ c.experienceIdx < c.summaryIdx
           /\ Line(c, 0) \in sectionKeywords
           /\ Line(c, c.n - 1) \in sectionKeywords
    /\ result.n - 1 \in result.reads
    /\ 0 \in result.reads

\* the end of the identity span: the Summary anchor, else the Experience
\* anchor, else end-of-stream (position from 1 in cl, so one more than the
\* 0-based index)
SpanEndPos(cl) ==
    IF FirstAt(cl, "Summary") > 0 THEN FirstAt(cl, "Summary")
    ELSE IF FirstAt(cl, "Experience") > 0 THEN FirstAt(cl, "Experience")
    ELSE Len(cl) + 1

\* the location test: under 50 characters, no pipe, and a comma or a single
\* capitalized word
PassesLocationTest(l) ==
    /\ Len(l) < 50
    /\ ~Includes(l, "|")
    /\ \/ Includes(l, ",")
       \/ (Len(l) >= 2 /\ Ch(l, 1) \in Upper /\ \A k \in 2..Len(l) : Ch(l, k) \in Lower)

\* C12: whenever the line immediately before the end of the identity span
\* passes the location test, that line is not one of the lines assembled into
\* the returned headline
C12_HeadlineExcludesLocationLine ==
    Returned =>
        LET cl == Clean(text)
            e  == SpanEndPos(cl)
        IN  (e >= 2 /\ PassesLocationTest(cl[e - 1]))
                => (e - 2) \notin result.headlineLines

\* C13: the returned location is the line immediately before the end of the
\* identity span whenever that line passes the location test, and is absent
\* otherwise
C13_LocationIsLineBeforeSpanEnd ==
    Returned =>
        LET cl == Clean(text)
            e  == SpanEndPos(cl)
        IN  IF e >= 2 /\ PassesLocationTest(cl[e - 1])
            THEN result.profile.location = Some(cl[e - 1])
            ELSE result.profile.location = Undefined

\* C14: the identity span ends at the index of the Summary line whenever
\* there is one, index 0 included; at the index of the Experience line when
\* Summary is absent; at end-of-stream when both are absent
C14_SpanEndsAtFirstPresentAnchor ==
    Returned => result.spanEnd = SpanEndPos(Clean(text)) - 1

\* the maximal runs of characters of l that are not white space, as pairs of
\* first and last position
WordsOf(l) ==
    {<<a, b>> \in (1..Len(l)) \X (1..Len(l)) :
        /\ a <= b
        /\ \A k \in a..b : Ch(l, k) \notin WS
        /\ (a = 1 \/ Ch(l, a - 1) \in WS)
        /\ (b = Len(l) \/ Ch(l, b + 1) \in WS)}

\* person-name shape: 2 to 40 characters, none of the characters in barred,
\* no digit, 1 to 5 words each starting with an upper-case letter
PersonNameShape(l, barred) ==
    /\ Len(l) >= 2 /\ Len(l) <= 40
    /\ \A k \in 1..Len(l) : Ch(l, k) \notin barred /\ Ch(l, k) \notin Digit
    /\ Cardinality(WordsOf(l)) \in 1..5
    /\ \A w \in WordsOf(l) : Ch(l, w[1]) \in Upper

\* headline-start shape: a pipe, " at " or "@" in the line, or more than 40 characters
HeadlineStartShape(l) ==
    \/ \E k \in 1..Len(l) : Ch(l, k) \in {"|", "@"}
    \/ \E k \in 1..(Len(l) - 3) : SubSeq(l, k, k + 3) = " at "
    \/ Len(l) > 40

\* the span end the call used, moved back by one when the line before it
\* passes the location test
ShrunkSpanEnd(cl) ==
    IF result.spanEnd >= 1 /\ PassesLocationTest(cl[result.spanEnd])
    THEN result.spanEnd - 1 ELSE result.spanEnd

\* the indices i (from 0) with max(0, e-15) <= i and i+1 < e at which a line of
\* person-name shape is followed by a line of headline-start shape
NameCandidates(cl, e, barred) ==
    {i \in 0..(e - 2) :
        /\ i >= e - 15
        /\ PersonNameShape(cl[i + 1], barred)
        /\ HeadlineStartShape(cl[i + 2])}

\* the name is the line at the greatest candidate index, absent without one
NameIsLastCandidate(barred) ==
    LET cl   == Clean(text)
        cand == NameCandidates(cl, ShrunkSpanEnd(cl), barred)
    IN  IF cand = {}
        THEN result.profile.name = Undefined
        ELSE result.profile.name = Some(cl[(CHOOSE i \in cand : \A j \in cand : j <= i) + 1])

C16_HeadlineIsLinesAfterName ==
    Returned =>
        LET cl   == Clean(text)
            e    == ShrunkSpanEnd(cl)
            cand == NameCandidates(cl, e, {"|", "@", "(", ":"})
            at   == CHOOSE i \in cand : \A j \in cand : j <= i
        IN  /\ (result.profile.headline # Undefined) <=> (result.profile.name # Undefined)
            /\ result.profile.name # Undefined
                    => result.profile.headline = Some(Join(SubSeq(cl, at + 2, e), " "))

\* the position (from 1) at which the skills span of cl ends: the Languages
\* line when it follows the Top Skills line, else the tenth position after the
\* Top Skills line; never beyond the position after the last line
SkillSpanEnd(cl) ==
    LET ts == FirstAt(cl, "Top Skills")
        lg == FirstAt(cl, "Languages")
    IN  Min(IF lg > ts THEN lg ELSE ts + 10, Len(cl) + 1)

\* the position of the first section header after the Top Skills line and
\* before the span end; the span end when there is none
SkillStopPos(cl) ==
    LET ts   == FirstAt(cl, "Top Skills")
        hdrs == {k \in (ts + 1)..(SkillSpanEnd(cl) - 1) : cl[k] \in sectionKeywords}
    IN  IF hdrs = {} THEN SkillSpanEnd(cl)
        ELSE CHOOSE k \in hdrs : \A j \in hdrs : k <= j

\* the lines of seq under 50 characters, in order
RECURSIVE ShortLines(_)
ShortLines(seq) ==
    IF seq = <<>> THEN <<>>
    ELSE (IF Len(Head(seq)) < 50 THEN <<Head(seq)>> ELSE <<>>) \o ShortLines(Tail(seq))

\* C17: the skills are, in document order and with duplicates, the lines
\* under 50 characters after the Top Skills line and before the first section
\* header or the end of the skills span; none is a section header
C17_SkillsAreShortLinesBeforeHeader ==
    Returned =>
        LET cl == Clean(text)
            ts == FirstAt(cl, "Top Skills")
        IN  /\ result.profile.skills =
                    IF ts = 0 THEN <<>>
                    ELSE ShortLines(SubSeq(cl, ts + 1, SkillStopPos(cl) - 1))
            /\ \A k \in 1..Len(result.profile.skills) :
                    result.profile.skills[k] \notin sectionKeywords

\* Languages before Top Skills, a duplicate skill, a line of 50 characters left
\* out and lines after a section header left out
C17_Witness ==
    /\ Returned
    /\ LET cl == Clean(text)
           ts == FirstAt(cl, "Top Skills")
       IN  /\ ts > FirstAt(cl, "Languages")
           /\ FirstAt(cl, "Languages") > 0
           /\ SkillStopPos(cl) < SkillSpanEnd(cl)
           /\ \E k \in (ts + 1)..(SkillStopPos(cl) - 1) : Len(cl[k]) >= 50
           /\ result.profile.skills = <<"Python", "Python">>

\* C18: without a Languages line after the Top Skills line, ten short lines
\* that are no section headers right after the Top Skills line give ten skills
C18_TenLinesGiveTenSkills ==
    Returned =>
        LET cl == Clean(text)
            ts == FirstAt(cl, "Top Skills")
        IN  (/\ ts > 0
             /\ FirstAt(cl, "Languages") <= ts
             /\ Len(cl) >= ts + 10
             /\ \A k \in (ts + 1)..(ts + 10) :
                    Len(cl[k]) < 50 /\ cl[k] \notin sectionKeywords)
                => /\ Len(result.profile.skills) >= 10
                   /\ SubSeq(result.profile.skills, 1, 10) = SubSeq(cl, ts + 1, ts + 10)

\* the positions (from 1) of the date-range lines of the Experience span of cl
DatePositions(cl) ==
    LET e == FirstAt(cl, "Experience")
    IN  IF e = 0 THEN {}
        ELSE {p \in (e + 1)..(SpanEnd(cl) - 1) : dateRangePattern(cl[p])}

\* the position of the k-th date-range line of the Experience span
KthDate(cl, k) ==
    CHOOSE p \in DatePositions(cl) :
        Cardinality({q \in DatePositions(cl) : q < p}) = k - 1

\* C19: the experience list has min(20, number of date-range lines of the
\* Experience span) entries, and its k-th entry carries the dates of the k-th
\* date-range line of the span, in document order
C19_EntriesFollowDateLines ==
    Returned =>
        LET cl == Clean(text)
            ex == result.profile.experience
        IN  /\ Len(ex) = Min(MaxExperience, Cardinality(DatePositions(cl)))
            /\ \A k \in 1..Len(ex) :
                    /\ ex[k].start_date = startDate(cl[KthDate(cl, k)])
                    /\ ex[k].end_date = endDate(cl[KthDate(cl, k)])

\* two different date-range lines in the span, the later year first, and a
\* third date-range line under the Education heading that follows
C19_Witness ==
    /\ Returned
    /\ LET cl == Clean(text)
       IN  /\ SpanEnd(cl) <= Len(cl)
           /\ dateRangePattern(cl[Len(cl)])
           /\ Cardinality(DatePositions(cl)) = 2
    /\ Len(result.profile.experience) = 2
    /\ result.profile.experience[1].start_date = "Jan 2021"
    /\ result.profile.experience[1].end_date = "Present"
    /\ result.profile.experience[2].start_date = "2019"
    /\ result.profile.experience[2].end_date = "2020"

\* C20: the entry of a date-range line with two or more lines between it and
\* the Experience heading has the line before it as title and the line two
\* before it as company, whatever the two lines are; with one line between,
\* that line is the company and the title is "Unknown"
C20_TitleAndCompanyAreLeadInLines ==
    Returned =>
        LET cl == Clean(text)
            e  == FirstAt(cl, "Experience")
            ex == result.profile.experience
        IN  \A k \in 1..Len(ex) :
                LET i == KthDate(cl, k)
                IN  /\ i >= e + 3 => /\ ex[k].title = cl[i - 1]
                                     /\ ex[k].company = cl[i - 2]
                    /\ i = e + 2 => /\ ex[k].title = "Unknown"
                                    /\ ex[k].company = cl[i - 1]

\* C21: within one Experience span, the line an entry takes as its location
\* is not the line a later entry takes as its title or as its company
C21_LocationLineIsNoLaterLeadIn ==
    Returned =>
        LET cl == Clean(text)
            ex == result.profile.experience
        IN  \A k \in 1..Len(ex) : \A m \in (k + 1)..Len(ex) :
                ex[k].location # Undefined =>
                    /\ KthDate(cl, k) + 1 # KthDate(cl, m) - 1
                    /\ KthDate(cl, k) + 1 # KthDate(cl, m) - 2

\* the position of the first date-range line of the Experience span after
\* position p; 0 when there is none
NextDateAfter(cl, p) ==
    LET later == {q \in DatePositions(cl) : q > p}
    IN  IF later = {} THEN 0 ELSE CHOOSE q \in later : \A r \in later : q <= r

\* the lines from position from up to, not including, position to, or up to
\* the end of the Experience span when fewer remain
SpanLinesBetween(cl, from, to) ==
    IF from < Min(to, SpanEnd(cl)) THEN SubSeq(cl, from, Min(to, SpanEnd(cl)) - 1) ELSE <<>>

\* the reflowed texts that some run of lines, started after the date-range
\* line at position i and ended before position stop, gives
DescriptionsBefore(cl, i, stop) ==
    {OrUndefined(reflowText(SpanLinesBetween(cl, from, to))) :
        from \in {i + 1, i + 2}, to \in (i + 1)..Max(i + 1, stop)}

\* C22: the description of an entry whose next date-range line is at k is
\* built from lines below k - 2 only, and the description of the last entry
\* of the span from lines of the span only
C22_DescriptionStopsBeforeNextLeadIn ==
    Returned =>
        LET cl == Clean(text)
            ex == result.profile.experience
        IN  \A n \in 1..Len(ex) :
                LET i == KthDate(cl, n)
                    k == NextDateAfter(cl, i)
                IN  ex[n].description \in
                        DescriptionsBefore(cl, i, IF k = 0 THEN SpanEnd(cl) ELSE k - 2)

\* the lines of t that the Line Normalizer keeps, as they stand before trim()
RawKept(t) ==
    LET raw  == SplitLines(t)
        kept == {k \in 1..Len(raw) : Trim(raw[k]) # "" /\ ~PageNoise(Trim(raw[k]))}
        nth(n) == CHOOSE k \in kept : Cardinality({j \in kept : j < k}) = n - 1
    IN  [n \in 1..Cardinality(kept) |-> raw[nth(n)]]

\* the line at position p began with white space before it was trimmed
Indented(t, p) == Ch(RawKept(t)[p], 1) \in WS

\* the positions of the lines of the summary after its first: after the line
\* that follows the first Summary line, before the first Experience or
\* Education line after it, within the lines the summary loop visits
SummaryTailPositions(cl) ==
    LET s == FirstAt(cl, "Summary")
    IN  IF s = 0 THEN {}
        ELSE {p \in (s + 2)..Min(Len(cl), s + 39) :
                \A q \in (s + 1)..p : cl[q] \notin {"Experience", "Education"}}

\* C23: a line of the summary, or of the description of the only job of the
\* span, that began with white space before it was trimmed is separated from
\* the text before it by a newline
C23_IndentedLineStartsParagraph ==
    Returned =>
        LET cl == Clean(text)
            ex == result.profile.experience
        IN  /\ \A p \in SummaryTailPositions(cl) :
                    (Indented(text, p) /\ result.profile.summary # Undefined)
                        => Includes(result.profile.summary[1], "\n" \o cl[p])
            /\ (Len(ex) = 1 /\ ex[1].description # Undefined) =>
                    \A p \in (KthDate(cl, 1) + 3)..(SpanEnd(cl) - 1) :
                        Indented(text, p)
                            => Includes(ex[1].description[1], "\n" \o cl[p])

\* the first position from p on that is not in skip (the position after the
\* last line when all are)
FirstNotIn(cl, p, skip) ==
    IF p > Len(cl) THEN Len(cl) + 1
    ELSE CHOOSE q \in p..(Len(cl) + 1) :
            /\ q = Len(cl) + 1 \/ q \notin skip
            /\ \A r \in p..(q - 1) : r \in skip

\* the walk in strides of two from position p: school, degree (if a line is
\* left), then over the lines whose positions are in skip
RECURSIVE EduWalk(_, _, _)
EduWalk(cl, p, skip) ==
    IF p > Len(cl) THEN <<>>
    ELSE <<[school |-> cl[p],
            degree |-> IF p + 1 <= Len(cl) THEN Some(cl[p + 1]) ELSE Undefined]>>
         \o EduWalk(cl, FirstNotIn(cl, p + 2, skip), skip)

\* the first MaxEducation entries of the walk after the Education line
EduEntries(cl, skip) ==
    LET e    == FirstAt(cl, "Education")
        walk == IF e = 0 THEN <<>> ELSE EduWalk(cl, e + 1, skip)
    IN  SubSeq(walk, 1, Min(MaxEducation, Len(walk)))

\* C24 as stated: after school and degree the walk skips only the lines that
\* are a 4-digit year and nothing else
C24_SkipsPureYearLines ==
    Returned =>
        LET cl == Clean(text)
        IN  result.profile.education =
                EduEntries(cl, {p \in 1..Len(cl) :
                                    Len(cl[p]) = 4 /\ AllIn(cl[p], 1, 4, Digit)})

\* C24: after school and degree the walk skips the lines that begin with four
\* digits, whatever follows the digits; the first line that does not is the
\* next school
C24_SkipsLinesStartingWithYear ==
    Returned =>
        LET cl == Clean(text)
        IN  result.profile.education =
                EduEntries(cl, {p \in 1..Len(cl) :
                                    Len(cl[p]) >= 4 /\ AllIn(cl[p], 1, 4, Digit)})

\* a year, a date range and a line that begins with a year are skipped after
\* MIT and BSc, and Stanford is the second school
C24_Witness ==
    /\ Returned
    /\ text = "Education\nMIT\nBSc\n2015 - 2019\n2019 Graduated with honours\nStanford"
    /\ result.profile.education =
            <<[school |-> "MIT", degree |-> Some("BSc")],
              [school |-> "Stanford", degree |-> Undefined]>>

\* the number of digit characters of s
DigitCount(s) == Cardinality({i \in 1..Len(s) : Ch(s, i) \in Digit})

\* C25: a returned phone has at least 8 digit characters
C25_PhoneHasEightDigits ==
    (Returned /\ result.profile.phone # Undefined)
        => DigitCount(result.profile.phone[1]) >= 8

\* the position of the next present anchor after position s: the least first
\* occurrence of a section header beyond s, or the position after the last line
NextAnchorAfter(cl, s) ==
    LET later == {FirstAt(cl, h) : h \in sectionKeywords} \cap (s + 1)..Len(cl)
    IN  IF later = {} THEN Len(cl) + 1
        ELSE CHOOSE p \in later : \A q \in later : p <= q

\* C26: the summary is the reflow of all the lines after the Summary line and
\* before the next present anchor, or up to the last line when no anchor
\* follows, however many they are
C26_SummaryIsWholeSpan ==
    Returned =>
        LET cl == Clean(text)
            s  == FirstAt(cl, "Summary")
        IN  result.profile.summary =
                IF s = 0 THEN Undefined
                ELSE OrUndefined(reflowText(SubSeq(cl, s + 1, NextAnchorAfter(cl, s) - 1)))

(***************************************************************************)
(* reflowText called on a block of lines                                   *)
(***************************************************************************)
MaxBlock == 3

\* lines as reflowText receives them: lines of clean, trimmed and not empty
BlockLines ==
    {"Shipped the widget.", "- Reduced latency by 40%.", "2) Hired five",
     "10. Led the team", "(a) cut costs", "Key wins:", "3 teams merged",
     "TOOLS & METHODS: Go"}

Blocks == SeqsUpTo(BlockLines, MaxBlock)

InitReflow ==
    /\ text = ""
    /\ phase = "input"
    /\ result = NoResult
    /\ pdfLines \in Blocks
    /\ reflowed = <<>>
    /\ profilesFile = NoFile
    /\ usersFile = NoFile
    /\ reqs = <<>>
    /\ nextId = 1
    /\ lastGet = NoGet

\* the call reflowText(pdfLines)
Reflow ==
    /\ reflowed = <<>>
    /\ reflowed' = <<reflowText(pdfLines)>>
    /\ UNCHANGED <<lastGet, text, phase, result, pdfLines, profilesFile, usersFile, reqs, nextId>>

NextReflow == Reflow

SpecReflow == InitReflow /\ [][NextReflow]_vars

\* the line starts with a dash, with digits closed by "." or ")", or with a
\* lower-case letter in parentheses
StartsWithMarker(l) ==
    \/ Ch(l, 1) = "-"
    \/ \E k \in 1..(Len(l) - 1) :
            /\ \A j \in 1..k : Ch(l, j) \in Digit
            /\ Ch(l, k + 1) \in {".", ")"}
    \/ (Len(l) >= 3 /\ Ch(l, 1) = "(" /\ Ch(l, 2) \in Lower /\ Ch(l, 3) = ")")

\* the position in the output at which line i of the block starts, every
\* line being followed by one separator character
RECURSIVE Offset(_, _)
Offset(ls, i) ==
    IF i = 1 THEN 1 ELSE Offset(ls, i - 1) + Len(ls[i - 1]) + 1

Newlines(s) == {p \in 1..Len(s) : Ch(s, p) = "\n"}

\* C30: for a block of trimmed lines the output is the lines of the block,
\* each once and in order, with one space or one newline between adjacent
\* lines: a newline before the lines that pass the new-paragraph test, a
\* space before the others; the paragraphs are one more than the lines after
\* the first that pass the test; an empty block gives the empty string
C30_ReflowConservesLines ==
    reflowed # <<>> =>
        LET out == reflowed[1]
            n   == Len(pdfLines)
            new == {i \in 2..n : isNewParagraph(pdfLines[i])}
        IN  IF n = 0 THEN out = ""
            ELSE /\ Len(out) = Offset(pdfLines, n) + Len(pdfLines[n]) - 1
                 /\ \A i \in 1..n :
                        SubSeq(out, Offset(pdfLines, i),
                               Offset(pdfLines, i) + Len(pdfLines[i]) - 1) = pdfLines[i]
                 /\ \A i \in 2..n :
                        Ch(out, Offset(pdfLines, i) - 1) = IF i \in new THEN "\n" ELSE " "
                 /\ Cardinality(Newlines(out)) + 1 = 1 + Cardinality(new)

\* three lines, the second continuing the first and the third a heading
C30_Witness ==
    /\ pdfLines = <<"Shipped the widget.", "3 teams merged", "TOOLS & METHODS: Go">>
    /\ reflowed = <<"Shipped the widget. 3 teams merged\nTOOLS & METHODS: Go">>

(***************************************************************************)
(* The file-backed store (_lib/store)                                      *)
(***************************************************************************)
\* the JSON object {}
EmptyObject == [k \in {} |-> <<>>]

\* obj with obj[k] = v
Put(obj, k, v) == [x \in DOMAIN obj \cup {k} |-> IF x = k THEN v ELSE obj[x]]

\* the parsed contents of the file, the fallback when the file does not exist
\* or does not parse
loadJSON(file, fallback) == IF file.kind = "json" THEN file.data ELSE fallback

\* the file after writeFileSync(path, JSON.stringify(data)); what JSON.parse
\* gives back differs from data only in that undefined properties are missing,
\* which reads as undefined again
saveJSON(data) == [kind |-> "json", data |-> data]

\* the list of some user of the file, whoever asks
getProfilesForUser_anyUser(file, email) ==
    LET all == loadJSON(file, EmptyObject)
    IN  IF DOMAIN all = {} THEN <<>> ELSE all[CHOOSE u \in DOMAIN all : TRUE]

getProfilesForUser(file, email) ==
    LET all == loadJSON(file, EmptyObject)
    IN  IF email \in DOMAIN all THEN all[email] ELSE <<>>

\* profiles.json after saveProfileVersion(email, profile)
saveProfileVersion(file, email, profileVersion) ==
    LET all  == loadJSON(file, EmptyObject)
        list == IF email \in DOMAIN all THEN all[email] ELSE <<>>
    IN  saveJSON(Put(all, email, Append(list, profileVersion)))

\* getOrCreateUser finds the user in users.json
userExists(file, email) == email \in DOMAIN loadJSON(file, EmptyObject)

\* users.json after getOrCreateUser(email), id being the fresh id it draws
\* when it creates the user
getOrCreateUser(file, email, id) ==
    IF userExists(file, email) THEN file
    ELSE saveJSON(Put(loadJSON(file, EmptyObject), email, [id |-> id, email |-> email]))

(***************************************************************************)
(* Authentication (_lib/auth)                                              *)
(***************************************************************************)
Users == {"a@x.io", "b@y.io"}

\* what jwt.verify makes of the token after "Bearer "
Tokens ==
    {[kind |-> "forged"], [kind |-> "expired"], [kind |-> "payload", email |-> Undefined]}
    \cup {[kind |-> "payload", email |-> Some(u)] : u \in Users}

\* the Authorization header of a request: absent, of another scheme, or a bearer token
AuthHeaders ==
    {[kind |-> "absent"], [kind |-> "basic"]}
    \cup {[kind |-> "bearer", token |-> t] : t \in Tokens}

\* verifyToken: the email of the payload, or the message of the error it throws
verifyToken(authHeader) ==
    IF authHeader.kind # "bearer"
    THEN [ok |-> FALSE, message |-> "Invalid authorization header"]
    ELSE IF authHeader.token.kind = "expired"
    THEN [ok |-> FALSE, message |-> "Token expired"]
    ELSE IF authHeader.token.kind = "forged" \/ authHeader.token.email = Undefined
    THEN [ok |-> FALSE, message |-> "Invalid token"]
    ELSE [ok |-> TRUE, email |-> authHeader.token.email[1]]

(***************************************************************************)
(* POST /api/v1/profiles/upload                                            *)
(***************************************************************************)
MAX_PDF_SIZE == 10 * 1024 * 1024

\* the most upload requests of a behaviour
MaxReqs == 3

\* the file field of the form: missing, or a file with a name and a size
UploadFiles ==
    {[name |-> nm, size |-> sz] :
        nm \in {"cv.PDF", "cv.txt"}, sz \in {0, 1024, MAX_PDF_SIZE, MAX_PDF_SIZE + 1}}

\* how await request.formData() ends
FormDataOutcomes ==
    {[kind |-> "rejected"]}
    \cup {[kind |-> "resolved", file |-> f] :
            f \in {Undefined} \cup {Some(x) : x \in UploadFiles}}

PdfTexts == {"", " \n ", "Jane Doe\nLead | Builder", " Mail: x@y.io "}

\* how await pdfParse(buffer) ends
PdfParseOutcomes ==
    {[kind |-> "rejected"]}
    \cup {[kind |-> "resolved", text |-> t] :
            t \in {Undefined} \cup {Some(x) : x \in PdfTexts}}

\* extractBasicInfo(pdfText) for the texts pdfParse can give
ExtractedFrom == [t \in PdfTexts |-> Outcome(t)]

\* file.name.toLowerCase().endsWith(".pdf")
EndsWithPdf(nm) == Len(nm) >= 4 /\ MatchCI(nm, Len(nm) - 3, ".pdf")

\* a || b for an optional string a
OrElse(a, b) == IF a = Undefined \/ a = Some("") THEN b ELSE a[1]

NoResponse == [status |-> 0]

\* NextResponse.json(.., {status}); of the body of a 200 only the id and the
\* version number are kept, the other fields repeat the stored version
Response(status) == [status |-> status]

\* the version number taken from the list read without adding one
nextVersion_lenOnly(existing) == Len(existing)

nextVersion(existing) == Len(existing) + 1

\* the record POST stores for the extracted profile
profileVersion(id, email, version, extracted) ==
    [id             |-> id,
     user_id        |-> email,
     version        |-> version,
     email          |-> OrElse(extracted.email, email),
     name           |-> extracted.name,
     phone          |-> extracted.phone,
     location       |-> extracted.location,
     headline       |-> extracted.headline,
     summary        |-> extracted.summary,
     experience     |-> extracted.experience,
     education      |-> extracted.education,
     skills         |-> extracted.skills,
     certifications |-> <<>>,
     languages      |-> <<>>]

\* reqs with request i moved to pc and answered (or not yet) with response
Moved(i, pc, response) ==
    [reqs EXCEPT ![i] = [@ EXCEPT !.pc = pc, !.response = response]]

\* a request arrives: the handler runs up to await request.formData()
POST_start(authHeader) ==
    /\ Len(reqs) < MaxReqs
    /\ LET verified == verifyToken(authHeader)
       IN  IF authHeader.kind = "absent" \/ ~verified.ok
           THEN /\ reqs' = Append(reqs, [email |-> "", pc |-> "done",
                                         response |-> Response(401)])
                /\ UNCHANGED <<usersFile, nextId>>
           ELSE /\ usersFile' = getOrCreateUser(usersFile, verified.email, nextId)
                /\ nextId' = IF userExists(usersFile, verified.email)
                             THEN nextId ELSE nextId + 1
                /\ reqs' = Append(reqs, [email |-> verified.email, pc |-> "formData",
                                         response |-> NoResponse])
    /\ lastGet' = NoGet
    /\ UNCHANGED <<text, phase, result, pdfLines, reflowed, profilesFile>>

\* request.formData() settles: the handler runs up to await file.arrayBuffer()
POST_afterFormData(i, outcome) ==
    /\ reqs[i].pc = "formData"
    /\ reqs' =
        IF outcome.kind = "rejected"
        THEN Moved(i, "done", Response(500))
        ELSE IF outcome.file = Undefined \/ ~EndsWithPdf(outcome.file[1].name)
        THEN Moved(i, "done", Response(400))
        ELSE IF outcome.file[1].size > MAX_PDF_SIZE \/ outcome.file[1].size = 0
        THEN Moved(i, "done", Response(400))
        ELSE Moved(i, "arrayBuffer", NoResponse)
    /\ lastGet' = NoGet
    /\ UNCHANGED <<text, phase, result, pdfLines, reflowed, profilesFile, usersFile, nextId>>

\* file.arrayBuffer() resolves: the handler runs up to await pdfParse(buffer)
POST_afterArrayBuffer(i) ==
    /\ reqs[i].pc = "arrayBuffer"
    /\ reqs' = Moved(i, "pdfParse", NoResponse)
    /\ lastGet' = NoGet
    /\ UNCHANGED <<text, phase, result, pdfLines, reflowed, profilesFile, usersFile, nextId>>

\* the handler saving before it tests pdfText
POST_extractAndSave_saveFirst(i, outcome, pdfText, extracted) ==
    LET email    == reqs[i].email
        existing == getProfilesForUser(profilesFile, email)
        stored   == profileVersion(nextId, email, nextVersion(existing),
                                   extracted.profile)
        refused  == outcome.kind = "rejected" \/ pdfText = "" \/ Len(Trim(pdfText)) = 0
    IN  IF extracted.kind = "TypeError"
        THEN /\ reqs' = Moved(i, "done", Response(500))
             /\ UNCHANGED <<profilesFile, nextId>>
        ELSE /\ profilesFile' = saveProfileVersion(profilesFile, email, stored)
             /\ nextId' = nextId + 1
             /\ reqs' = Moved(i, "done",
                              IF refused THEN Response(400)
                              ELSE [status |-> 200, profile_version_id |-> stored.id,
                                    version |-> stored.version])

\* the handler from the test of pdfText to its end, for the text pdfParse gave
\* and the record extractBasicInfo returns (or the TypeError it raises) for it
POST_extractAndSave(i, outcome, pdfText, extracted) ==
    LET email    == reqs[i].email
        existing == getProfilesForUser(profilesFile, email)
        stored   == profileVersion(nextId, email, nextVersion(existing),
                                   extracted.profile)
    IN  IF outcome.kind = "rejected" \/ pdfText = "" \/ Len(Trim(pdfText)) = 0
        THEN /\ reqs' = Moved(i, "done", Response(400))
             /\ UNCHANGED <<profilesFile, nextId>>
        ELSE IF extracted.kind = "TypeError"
        THEN /\ reqs' = Moved(i, "done", Response(500))
             /\ UNCHANGED <<profilesFile, nextId>>
        ELSE /\ profilesFile' = saveProfileVersion(profilesFile, email, stored)
             /\ nextId' = nextId + 1
             /\ reqs' = Moved(i, "done",
                              [status |-> 200, profile_version_id |-> stored.id,
                               version |-> stored.version])

\* data.text || "" of a resolved pdfParse
pdfTextOf(outcome) ==
    IF outcome.kind = "resolved" THEN OrElse(outcome.text, "") ELSE ""

\* pdfParse(buffer) settles: the handler runs to its end
POST_afterPdfParse(i, outcome) ==
    /\ reqs[i].pc = "pdfParse"
    /\ POST_extractAndSave(i, outcome, pdfTextOf(outcome),
                           ExtractedFrom[pdfTextOf(outcome)])
    /\ lastGet' = NoGet
    /\ UNCHANGED <<text, phase, result, pdfLines, reflowed, usersFile>>

InitUpload ==
    /\ text = ""
    /\ phase = "input"
    /\ result = NoResult
    /\ pdfLines = <<>>
    /\ reflowed = <<>>
    /\ profilesFile = NoFile
    /\ usersFile = NoFile
    /\ reqs = <<>>
    /\ nextId = 1
    /\ lastGet = NoGet

NextUpload ==
    \/ \E authHeader \in AuthHeaders : POST_start(authHeader)
    \/ \E i \in 1..Len(reqs), outcome \in FormDataOutcomes : POST_afterFormData(i, outcome)
    \/ \E i \in 1..Len(reqs) : POST_afterArrayBuffer(i)
    \/ \E i \in 1..Len(reqs), outcome \in PdfParseOutcomes : POST_afterPdfParse(i, outcome)

SpecUpload == InitUpload /\ [][NextUpload]_vars

(***************************************************************************)
(* The store under read faults: inside loadJSON, readFileSync or           *)
(* JSON.parse can throw (an I/O error, a file caught half written); the    *)
(* catch swallows the error and the fallback is returned.                  *)
(***************************************************************************)
\* the most versions saved under read faults
MaxSaves == 3

ReadOutcomes == {"read", "threw"}

\* what loadJSON gets from the file: its contents, or nothing when the read threw
FileAsRead(file, outcome) == IF outcome = "read" THEN file ELSE [kind |-> "threw"]

\* the end of POST for an authenticated user and a readable PDF with text t:
\* getProfilesForUser, nextVersion, saveProfileVersion, each with its own read
\* of profiles.json
POST_save(email, t, readAtGet, readAtSave) ==
    /\ nextId <= MaxSaves
    /\ profilesFile' =
            saveProfileVersion(
                FileAsRead(profilesFile, readAtSave), email,
                profileVersion(
                    nextId, email,
                    nextVersion(getProfilesForUser(FileAsRead(profilesFile, readAtGet), email)),
                    ExtractedFrom[t].profile))
    /\ nextId' = nextId + 1
    /\ UNCHANGED <<text, phase, result, pdfLines, reflowed, usersFile, reqs, lastGet>>

NextStore ==
    \E email \in Users, t \in {"Jane Doe\nLead | Builder", " Mail: x@y.io "},
       readAtGet \in ReadOutcomes, readAtSave \in ReadOutcomes :
        POST_save(email, t, readAtGet, readAtSave)

SpecStore == InitUpload /\ [][NextStore]_vars

\* the version lists of the store, by user
StoredVersions == loadJSON(profilesFile, EmptyObject)

\* C10: the versions stored for a user carry the numbers 1, 2, ..., n in
\* storage order, however the upload requests interleave at their awaits
C10_VersionsNumberedInOrder ==
    \A u \in DOMAIN StoredVersions :
        \A k \in 1..Len(StoredVersions[u]) : StoredVersions[u][k].version = k

\* two uploads of one user in flight together: the one that arrived second
\* stored version 1, the one that arrived first version 2
C10_Witness ==
    /\ Len(reqs) >= 2
    /\ reqs[1].email = reqs[2].email
    /\ reqs[1].response.status = 200
    /\ reqs[2].response.status = 200
    /\ reqs[2].response.version = 1
    /\ reqs[1].response.version = 2
    /\ Len(StoredVersions[reqs[1].email]) = 2

\* every version in the store stays where it is, unchanged, over the step
VersionsKept ==
    \A u \in DOMAIN StoredVersions :
        /\ u \in DOMAIN StoredVersions'
        /\ Len(StoredVersions'[u]) >= Len(StoredVersions[u])
        /\ SubSeq(StoredVersions'[u], 1, Len(StoredVersions[u])) = StoredVersions[u]

\* C27: once a version is stored, every later state of the store holds it
\* unchanged at the same position, also after a save whose read of
\* profiles.json failed
C27_StoreIsAppendOnly == [][VersionsKept]_vars

\* request i is answered with status st by the step
AnsweredWith(i, st) ==
    /\ i \in 1..Len(reqs')
    /\ reqs'[i].response.status = st
    /\ i <= Len(reqs) => reqs[i].response = NoResponse

\* the step changes the version lists only if it answers a request with 200
RefusalsStoreNothing ==
    StoredVersions' # StoredVersions => \E i \in 1..Len(reqs') : AnsweredWith(i, 200)

\* C28: no step of a request that is answered with 401 or 400 changes the
\* version list of any user; the lists change only in the step that answers
\* a request with 200
C28_RefusedUploadStoresNothing == [][RefusalsStoreNothing]_vars

\* a request refused with 401, a request refused with 400 after pdfParse, and
\* a version stored by a third request
C28_Witness ==
    /\ \E i \in 1..Len(reqs) : reqs[i].response.status = 401
    /\ \E i \in 1..Len(reqs) :
            reqs[i].response.status = 400 /\ reqs[i].email \in DOMAIN StoredVersions
    /\ \E i \in 1..Len(reqs) : reqs[i].response.status = 200

(***************************************************************************)
(* The response formats (_lib/format) and the GET routes of the profiles   *)
(***************************************************************************)
\* the JSON value null
Null == [null |-> TRUE]

\* a || null for an optional string a
OrNull(a) == IF a = Undefined \/ a = Some("") THEN Null ELSE a[1]

formatProfileResponse(p, isCurrent) ==
    [id              |-> p.id,
     user_id         |-> p.user_id,
     version         |-> p.version,
     headline        |-> OrNull(p.headline),
     summary         |-> OrNull(p.summary),
     experience      |-> p.experience,
     education       |-> p.education,
     skills          |-> p.skills,
     certifications  |-> p.certifications,
     languages       |-> p.languages,
     is_current      |-> isCurrent,
     raw_parsed_data |-> [name     |-> OrNull(p.name),
                          email    |-> p.email,
                          phone    |-> OrNull(p.phone),
                          location |-> OrNull(p.location),
                          headline |-> OrNull(p.headline),
                          summary  |-> OrNull(p.summary)]]

formatVersionSummary(p, isCurrent) ==
    [id         |-> p.id,
     version    |-> p.version,
     headline   |-> OrNull(p.headline),
     is_current |-> isCurrent]

\* Array.prototype.reverse
Reverse(seq) == [k \in 1..Len(seq) |-> seq[Len(seq) + 1 - k]]

\* the flag put on the first version of the list instead of the last
isLast_first(all, i) == i = 1

\* i === all.length - 1, for the position i (from 1) of a version in all
isLast(all, i) == i = Len(all)

\* the versions of the listing: newest first
versionsListing(file, email) ==
    LET all == getProfilesForUser(file, email)
    IN  Reverse([i \in 1..Len(all) |-> formatVersionSummary(all[i], isLast(all, i))])

\* the body of GET current for a user with at least one version
currentProfile(file, email) ==
    LET versions == getProfilesForUser(file, email)
    IN  formatProfileResponse(versions[Len(versions)], TRUE)

\* all.find(v => v.id === id): the position of the first match, 0 when there is none
findById(all, id) ==
    IF \E k \in 1..Len(all) : all[k].id = id
    THEN CHOOSE k \in 1..Len(all) : all[k].id = id /\ \A j \in 1..(k - 1) : all[j].id # id
    ELSE 0

\* GET requests are explored while at most this many uploads have arrived
MaxReqsBeforeGet == 2

\* the request of a GET and the email it was verified for
GetAs(route, verified, id) ==
    [route |-> route, email |-> IF verified.ok THEN verified.email ELSE "", id |-> id]

\* GET /api/v1/profiles/versions
GET_versions(authHeader) ==
    /\ Len(reqs) <= MaxReqsBeforeGet
    /\ LET verified == verifyToken(authHeader)
           asked    == GetAs("versions", verified, 0)
       IN  lastGet' =
            IF authHeader.kind = "absent" \/ ~verified.ok
            THEN [request |-> asked, status |-> 401]
            ELSE [request |-> asked, status |-> 200,
                  versions |-> versionsListing(profilesFile, verified.email)]
    /\ UNCHANGED <<text, phase, result, pdfLines, reflowed, profilesFile, usersFile, reqs, nextId>>

\* GET /api/v1/profiles/current
GET_current(authHeader) ==
    /\ Len(reqs) <= MaxReqsBeforeGet
    /\ LET verified == verifyToken(authHeader)
           asked    == GetAs("current", verified, 0)
       IN  lastGet' =
            IF authHeader.kind = "absent" \/ ~verified.ok
            THEN [request |-> asked, status |-> 401]
            ELSE IF Len(getProfilesForUser(profilesFile, verified.email)) = 0
            THEN [request |-> asked, status |-> 404]
            ELSE [request |-> asked, status |-> 200,
                  profile |-> currentProfile(profilesFile, verified.email)]
    /\ UNCHANGED <<text, phase, result, pdfLines, reflowed, profilesFile, usersFile, reqs, nextId>>

\* GET /api/v1/profiles/versions/[id]
GET_version(authHeader, id) ==
    /\ Len(reqs) <= MaxReqsBeforeGet
    /\ LET verified == verifyToken(authHeader)
           asked    == GetAs("version", verified, id)
           all      == getProfilesForUser(profilesFile, verified.email)
           at       == findById(all, id)
       IN  lastGet' =
            IF authHeader.kind = "absent" \/ ~verified.ok
            THEN [request |-> asked, status |-> 401]
            ELSE IF at = 0
            THEN [request |-> asked, status |-> 404]
            ELSE [request |-> asked, status |-> 200,
                  profile |-> formatProfileResponse(all[at], all[Len(all)].id = all[at].id)]
    /\ UNCHANGED <<text, phase, result, pdfLines, reflowed, profilesFile, usersFile, reqs, nextId>>

\* uploads and reads of the profiles, in any interleaving
NextProfiles ==
    \/ NextUpload
    \/ \E authHeader \in AuthHeaders : GET_versions(authHeader)
    \/ \E authHeader \in AuthHeaders : GET_current(authHeader)
    \/ \E authHeader \in AuthHeaders, id \in 1..nextId : GET_version(authHeader, id)

SpecProfiles == InitUpload /\ [][NextProfiles]_vars

\* the entries of a versions listing that carry is_current = true
CurrentEntries(listing) == {k \in 1..Len(listing) : listing[k].is_current}

\* the listing of user u flags exactly one version; it is the last one saved,
\* it has the highest version number and it is the one GET current returns
OneCurrentVersion(file, u, listing) ==
    LET all == getProfilesForUser(file, u)
    IN  /\ Cardinality(CurrentEntries(listing)) = 1
        /\ \A k \in CurrentEntries(listing) :
                /\ listing[k].id = all[Len(all)].id
                /\ \A j \in 1..Len(all) : all[j].version <= listing[k].version
                /\ listing[k].id = currentProfile(file, u).id
                /\ currentProfile(file, u).is_current

\* in every state, for every user with a stored version, and for the listing
\* a GET has just returned
CurrentFlagInListing ==
    /\ \A u \in DOMAIN StoredVersions :
            Len(StoredVersions[u]) >= 1
                => OneCurrentVersion(profilesFile, u, versionsListing(profilesFile, u))
    /\ (lastGet # NoGet /\ lastGet.request.route = "versions" /\ lastGet.status = 200
            /\ Len(getProfilesForUser(profilesFile, lastGet.request.email)) >= 1)
        => OneCurrentVersion(profilesFile, lastGet.request.email, lastGet.versions)

\* a step that saves a new version for a user who had one: the version flagged
\* before is listed unflagged after, and the flag is on the new version
CurrentFlagMoves ==
    \A u \in Users :
        LET before == getProfilesForUser(profilesFile, u)
            after  == getProfilesForUser(profilesFile', u)
            old    == versionsListing(profilesFile, u)
            new    == versionsListing(profilesFile', u)
        IN  (Len(before) >= 1 /\ Len(after) > Len(before)) =>
                /\ \A k \in CurrentEntries(old) :
                        \E j \in 1..Len(new) : new[j].id = old[k].id /\ ~new[j].is_current
                /\ \A j \in CurrentEntries(new) :
                        /\ new[j].id = after[Len(after)].id
                        /\ \A k \in 1..Len(before) : before[k].id # new[j].id

\* C11: for every user with a stored version the versions listing flags
\* exactly one version as current, the last saved one, with the highest version
\* number, the one GET current returns; and each new upload moves the flag from
\* the version that had it to the new one
C11_OneCurrentVersionFollowsUploads ==
    []CurrentFlagInListing /\ [][CurrentFlagMoves]_vars

\* a listing returned for a user with two versions: version 2 first and
\* flagged, version 1 second and not flagged
C11_Witness ==
    /\ lastGet # NoGet
    /\ lastGet.request.route = "versions"
    /\ lastGet.status = 200
    /\ Len(lastGet.versions) = 2
    /\ lastGet.versions[1].version = 2 /\ lastGet.versions[1].is_current
    /\ lastGet.versions[2].version = 1 /\ ~lastGet.versions[2].is_current

\* the ids of the versions stored under user u
IdsOf(u) ==
    IF u \in DOMAIN StoredVersions
    THEN {StoredVersions[u][k].id : k \in 1..Len(StoredVersions[u])} ELSE {}

\* the ids of the versions stored under users other than u
IdsOfOthers(u) == UNION {IdsOf(w) : w \in DOMAIN StoredVersions \ {u}}

\* the ids of the versions a GET answered with 200 gave out
IdsGiven ==
    IF lastGet.request.route = "versions"
    THEN {lastGet.versions[k].id : k \in 1..Len(lastGet.versions)}
    ELSE {lastGet.profile.id}

\* C29: a GET answered with 200 gives out only versions stored under the user
\* of its token, and GET version-by-id with the id of another user's version
\* is answered with 404
C29_VersionsIsolatedPerUser ==
    lastGet # NoGet =>
        /\ lastGet.status = 200 =>
                /\ IdsGiven \subseteq IdsOf(lastGet.request.email)
                /\ lastGet.request.route # "versions"
                        => lastGet.profile.user_id = lastGet.request.email
        /\ (/\ lastGet.request.route = "version"
            /\ lastGet.status # 401
            /\ lastGet.request.id \in IdsOfOthers(lastGet.request.email))
                => lastGet.status = 404

\* both users have a version stored, and one asks for the other's by its id
C29_Witness ==
    /\ lastGet # NoGet
    /\ lastGet.request.route = "version"
    /\ lastGet.request.email \in DOMAIN StoredVersions
    /\ lastGet.request.id \in IdsOfOthers(lastGet.request.email)
    /\ lastGet.status = 404

====
